---- MODULE Spec2Model ----
(***************************************************************************)
(* Model of the bulk image optimizer: the single-image transformer         *)
(* (bio/engine.py, process_image), the file enumerator and the batch       *)
(* orchestrator (bio/batch.py, iter_images and process_batch), over an      *)
(* explicit file system.                                                    *)
(*                                                                          *)
(* A path is a record [dir, stem, ext]: dir is the sequence of directory    *)
(* components, stem the sequence of the pieces the file name is built from  *)
(* (source stem, configured suffix, collision counter), ext the extension.  *)
(* Concatenating pieces is string concatenation, so two paths are the same  *)
(* string iff they are the same record.  The file system maps resolved      *)
(* (absolute) paths to file contents.                                       *)
(*                                                                          *)
(* process_image is modelled one file-system step at a time, so that the    *)
(* states between its steps are states of the model.  Decoding fails on a   *)
(* file no decoder accepts and encoding may fail part-way; every other      *)
(* file-system call succeeds.  The names mkstemp draws, bio_ and a random   *)
(* part, are not names of sources or outputs.  The encoder's output size    *)
(* is any size up to MaxBytes.  One configuration, built once as cli.py     *)
(* builds it, serves every call of a behaviour.                             *)
(***************************************************************************)
EXTENDS Integers, Sequences, FiniteSets, TLC

VARIABLES
    fs,            \* resolved path -> content, for every file that exists
    dirs,          \* the resolved directories that exist
    epc,           \* position of process_image: idle, mkstemp, save, write, gate, finalize, replace, done, raised
    call,          \* the frame of the current (or last) process_image call
    ret,           \* the ProcessResult the last process_image call returned
    pre,           \* the file system as it was when the current call started
    ncalls,        \* number of process_image calls started
    bpc,           \* position of process_batch: idle, loop, call, returned, raised
    job,           \* the arguments of the current (or last) process_batch call
    image_list,    \* batch.py:96
    idx,           \* batch.py:99, the loop index (1-based)
    results,       \* batch.py:88
    totals,        \* batch.py:90-94, the running totals
    summary,       \* batch.py:118, the BatchSummary returned
    cancel_event,  \* the threading.Event handed to process_batch
    cancelAt,      \* number of items that had passed the cancel check when the event was set, -1 if not set
    nruns,         \* number of process_batch calls started
    cfg,           \* the OptimizeSettings the front end built (cli.py:110-128)
    im,            \* im.size of the image process_image works on (engine.py:51-62)
    im_before,     \* im.size before the last of the two geometry steps
    s_img,         \* the crop and resize fields of the settings
    ipc,           \* position in engine.py:51-62: loaded, cropped, resized, raised
    report_json,   \* the documents written to report.json for the current batch: none or one
    args,          \* what the user gave the front end: the crop text and the JPEG quality
    cli,           \* cli.py main: its position, the crop ratio it parsed, its exit status
    gui,           \* gui.py BioGui: the worker thread, _polling, the buttons, the last dialog or log
    _q,            \* gui.py:53, self._q: the messages put and not yet taken
    posted         \* the messages the worker of the current run has put on the queue

imageVars == <<im, im_before, s_img, ipc>>

guiVars == <<gui, _q, posted>>

frontVars == <<args, cli, guiVars>>

sideVars == <<imageVars, report_json, frontVars>>

vars == <<fs, dirs, epc, call, ret, pre, ncalls, bpc, job, image_list, idx,
          results, totals, summary, cancel_event, cancelAt, nruns, cfg, sideVars>>

engineVars == <<fs, dirs, epc, call, ret, pre, ncalls>>
otherVars == <<cancel_event, cancelAt, cfg>>
batchVars == <<bpc, job, image_list, idx, results, totals, summary, nruns>>

----------------------------------------------------------------------------
(* Bounds of the model *)

MaxCalls == 3      \* process_image calls in one behaviour
MaxRuns == 2       \* process_batch calls in one behaviour
MaxBytes == 3      \* largest size the encoder produces; sources are 2 bytes
MaxTemps == 1      \* names mkstemp draws from

----------------------------------------------------------------------------
(* Paths *)

Cwd == <<"/", "w">>

InDir == <<"in">>
OutDirRel == <<"in", "out">>
OutDirAbs == <<"/", "w", "in", "out">>

NoPath == [dir |-> <<>>, stem |-> <<>>, ext |-> ""]

File(d, stem, ext) == [dir |-> d, stem |-> stem, ext |-> ext]

\* Path.resolve(): an absolute path stays, a relative one is taken from the cwd
ResolveDir(d) == IF d # <<>> /\ d[1] = "/" THEN d ELSE Cwd \o d

Resolve(p) == [p EXCEPT !.dir = ResolveDir(p.dir)]

IsPrefix(a, b) == Len(a) <= Len(b) /\ SubSeq(b, 1, Len(a)) = a

\* the directory a path names when it is used as one ("in" -> <<"in">>)
AsDir(p) == p.dir \o <<p.stem[1]>>

LooksLikeDir(p) == p.ext = "" /\ Len(p.stem) = 1

\* child.relative_to(parent) succeeds: parent is the file's directory or an ancestor of it
_is_relative_to(child, parent) == IsPrefix(parent, child.dir)

\* str.lower() on the extensions of the model
Lower(e) ==
    CASE e = ".JPG" -> ".jpg"
      [] e = ".PNG" -> ".png"
      [] OTHER -> e

\* the extension set with one extension too many
SUPPORTED_EXTS_txt == {".jpg", ".jpeg", ".png", ".webp", ".txt"}

SUPPORTED_EXTS == {".jpg", ".jpeg", ".png", ".webp"}

EXT_TO_FORMAT == [e \in SUPPORTED_EXTS |->
    CASE e = ".jpg" -> "jpeg"
      [] e = ".jpeg" -> "jpeg"
      [] e = ".png" -> "png"
      [] e = ".webp" -> "webp"]

FORMAT_TO_EXT == [f \in {"jpeg", "png", "webp"} |->
    CASE f = "jpeg" -> ".jpg"
      [] f = "png" -> ".png"
      [] f = "webp" -> ".webp"]

----------------------------------------------------------------------------
(* The file system *)

Exists(p) == Resolve(p) \in DOMAIN fs

IsFile(p) == Resolve(p) \in DOMAIN fs

IsDir(p) == LooksLikeDir(p) /\ ResolveDir(AsDir(p)) \in dirs

\* _file_size: st_size, 0 when the file is not there
_file_size(f, p) == IF Resolve(p) \in DOMAIN f THEN f[Resolve(p)].bytes ELSE 0

Remove(f, p) == [q \in DOMAIN f \ {Resolve(p)} |-> f[q]]

Put(f, p, c) == [q \in DOMAIN f \cup {Resolve(p)} |-> IF q = Resolve(p) THEN c ELSE f[q]]

\* Path.replace: rename src onto dst, whole file at once
Rename(f, src, dst) == Put(Remove(f, src), dst, f[Resolve(src)])

\* mkdir(parents=True, exist_ok=True)
Ancestors(d) == {SubSeq(d, 1, n) : n \in 1..Len(d)}

Content(b, w, r, d) == [bytes |-> b, whole |-> w, run |-> r, ok |-> d]

SrcA == File(InDir, <<"a">>, ".jpg")
SrcB == File(InDir, <<"b">>, ".PNG")
SrcC == File(InDir, <<"c">>, ".jpeg")
SrcNotes == File(InDir, <<"notes">>, ".txt")
OldOut0 == File(OutDirRel, <<"a", "_optimized">>, ".jpg")
OldOut2 == File(OutDirRel, <<"a", "_optimized", " (2)">>, ".jpg")

SrcBytes == 2

Tree(paths) == [q \in {Resolve(p) : p \in paths} |-> Content(SrcBytes, TRUE, 0, q.stem # <<"c">>)]

\* the trees a behaviour starts from: c.jpeg is a file no decoder accepts
InitialTrees == {
    Tree({SrcA, SrcB, SrcNotes}),
    Tree({SrcA, SrcC, SrcNotes, OldOut0, OldOut2}) }

----------------------------------------------------------------------------
(* Configuration: the fields cli.py hands to OptimizeSettings.  The override *)
(* flag and dry_run are passed at cli.py:115 and 127; engine.py reads neither. *)

OutputDirs == {OutDirAbs}
OutputFormats == {"keep", "jpeg"}
Suffixes == {"_optimized"}

AllSettings ==
    [output_dir : OutputDirs,
     output_format : OutputFormats,
     overwrite : BOOLEAN,
     only_if_smaller : BOOLEAN,
     write_even_if_bigger_when_stripping_metadata : BOOLEAN,
     suffix : Suffixes,
     strip_metadata : BOOLEAN,
     dry_run : BOOLEAN]

\* how many of the options other than overwrite leave their command-line
\* default (cli.py:42-66: only if smaller, keep the format, strip metadata,
\* no override, no dry run)
Deviations(s) ==
    (IF ~s.only_if_smaller THEN 1 ELSE 0)
    + (IF s.output_format # "keep" THEN 1 ELSE 0)
    + (IF s.write_even_if_bigger_when_stripping_metadata THEN 1 ELSE 0)
    + (IF ~s.strip_metadata THEN 1 ELSE 0)
    + (IF s.dry_run THEN 1 ELSE 0)

\* the configurations of the model: overwrite or not, and at most one other
\* option away from its default
SettingsSpace == {s \in AllSettings : Deviations(s) <= 1}

----------------------------------------------------------------------------
(* results.py: ProcessResult *)

NoReason == "None"

ProcessResult(src, out, sb, ob, ch, why) ==
    [src_path |-> src, out_path |-> out, src_bytes |-> sb, out_bytes |-> ob,
     changed |-> ch, skipped_reason |-> why]

NoResult == ProcessResult(NoPath, NoPath, 0, 0, FALSE, NoReason)

----------------------------------------------------------------------------
(* engine.py: the helpers of process_image *)

_choose_output_format(src_path, s) ==
    IF s.output_format = "keep"
    THEN IF Lower(src_path.ext) \in DOMAIN EXT_TO_FORMAT
         THEN EXT_TO_FORMAT[Lower(src_path.ext)]
         ELSE "jpeg"
    ELSE s.output_format

\* stem = src_path.stem + s.suffix; the empty suffix adds no piece
_build_output_path(src_path, s, out_format) ==
    File(s.output_dir,
         IF s.suffix = "" THEN src_path.stem ELSE src_path.stem \o <<s.suffix>>,
         FORMAT_TO_EXT[out_format])

\* the text f" ({i})" for the counters a behaviour can reach
CounterTag == <<" (1)", " (2)", " (3)", " (4)", " (5)", " (6)", " (7)", " (8)", " (9)">>

Candidate(path, i) == [path EXCEPT !.stem = path.stem \o <<CounterTag[i]>>]

RECURSIVE Probe(_, _, _)
Probe(f, path, i) ==
    IF Resolve(Candidate(path, i)) \notin DOMAIN f
    THEN Candidate(path, i)
    ELSE Probe(f, path, i + 1)

\* the counter started one too high
_next_available_name_from2(f, path) == Probe(f, path, 2)

_next_available_name(f, path) == Probe(f, path, 1)

\* no collision check at all
ChooseOutPath_base(f, src_path, s, out_format) ==
    _build_output_path(src_path, s, out_format)

\* the collision check without the test of overwrite
ChooseOutPath_numbering(f, src_path, s, out_format) ==
    LET out_path == _build_output_path(src_path, s, out_format)
    IN  IF Resolve(out_path) \in DOMAIN f
        THEN _next_available_name(f, out_path)
        ELSE out_path

\* engine.py:65-68
ChooseOutPath(f, src_path, s, out_format) ==
    LET out_path == _build_output_path(src_path, s, out_format)
    IN  IF Resolve(out_path) \in DOMAIN f /\ ~s.overwrite
        THEN _next_available_name(f, out_path)
        ELSE out_path

\* the names tempfile.mkstemp(prefix="bio_", suffix=ext, dir=output_dir) draws from
TempIds == {ToString(n) : n \in 1..MaxTemps}

TempName(s, out_format, t) == File(s.output_dir, <<"bio_", t>>, FORMAT_TO_EXT[out_format])

\* the encoder writing straight to the output path
SaveTarget_out(c) == c.out_path

\* the path the encoder writes to
SaveTarget(c) == c.tmp_path

\* the gate with > for >=
NotSmaller_strict(s, tmp_bytes, src_bytes) == s.only_if_smaller /\ tmp_bytes > src_bytes

\* engine.py:79
NotSmaller(s, tmp_bytes, src_bytes) == s.only_if_smaller /\ tmp_bytes >= src_bytes

NoCall ==
    [src_path |-> NoPath, s |-> CHOOSE x \in SettingsSpace : TRUE, src_bytes |-> 0,
     out_format |-> "", out_path |-> NoPath, tmp_path |-> NoPath, tmp_bytes |-> 0,
     opened |-> FALSE, by |-> "none"]

----------------------------------------------------------------------------
(* engine.py: process_image, one action per file-system step *)

\* engine.py:32-72: stat, extension gate, mkdir, decode, choice of the output path
Begin(src_path, s, who) ==
    LET src_bytes == _file_size(fs, src_path)
        frame == [NoCall EXCEPT !.src_path = src_path, !.s = s,
                                !.src_bytes = src_bytes, !.by = who]
    IN  /\ ncalls' = ncalls + 1
        /\ pre' = fs
        /\ fs' = fs
        /\ IF Lower(src_path.ext) \notin SUPPORTED_EXTS
           THEN /\ ret' = ProcessResult(src_path, NoPath, src_bytes, src_bytes,
                                        FALSE, "unsupported_extension")
                /\ call' = frame
                /\ dirs' = dirs
                /\ epc' = "done"
           ELSE /\ dirs' = dirs \cup Ancestors(ResolveDir(s.output_dir))
                /\ ret' = NoResult
                /\ IF IsFile(src_path) /\ fs[Resolve(src_path)].ok
                   THEN LET out_format == _choose_output_format(src_path, s)
                        IN  /\ call' = [frame EXCEPT
                                   !.opened = TRUE,
                                   !.out_format = out_format,
                                   !.out_path = ChooseOutPath(fs, src_path, s, out_format)]
                            /\ epc' = "mkstemp"
                   ELSE \* Image.open raises: no such file, or not an image
                        /\ call' = [frame EXCEPT !.opened = IsFile(src_path)]
                        /\ epc' = "raised"

\* engine.py:147-149: mkstemp creates an empty file under a name that is not in use
MkStemp ==
    /\ epc = "mkstemp"
    /\ \E t \in TempIds :
         LET tmp == TempName(call.s, call.out_format, t)
         IN  /\ ~Exists(tmp)
             /\ fs' = Put(fs, tmp, Content(0, FALSE, ncalls, FALSE))
             /\ call' = [call EXCEPT !.tmp_path = tmp]
    /\ epc' = "save"
    /\ UNCHANGED <<dirs, ret, pre, ncalls>>
    /\ UNCHANGED batchVars
    /\ UNCHANGED otherVars
    /\ UNCHANGED sideVars

\* engine.py:154: im.save opens its target for writing, which empties it
SaveOpen ==
    /\ epc = "save"
    /\ fs' = Put(fs, SaveTarget(call), Content(0, FALSE, ncalls, FALSE))
    /\ epc' = "write"
    /\ UNCHANGED <<dirs, call, ret, pre, ncalls>>
    /\ UNCHANGED batchVars
    /\ UNCHANGED otherVars
    /\ UNCHANGED sideVars

\* engine.py:154-156: im.save writes the encoded image and closes the file
Save ==
    /\ epc = "write"
    /\ \E b \in 1..MaxBytes :
         fs' = Put(fs, SaveTarget(call), Content(b, TRUE, ncalls, TRUE))
    /\ epc' = "gate"
    /\ UNCHANGED <<dirs, call, ret, pre, ncalls>>
    /\ UNCHANGED batchVars
    /\ UNCHANGED otherVars
    /\ UNCHANGED sideVars

\* engine.py:154: im.save raises part-way (encoder error, disk full)
SaveRaises ==
    /\ epc = "write"
    /\ epc' = "raised"
    /\ UNCHANGED <<fs, dirs, call, ret, pre, ncalls>>
    /\ UNCHANGED batchVars
    /\ UNCHANGED otherVars
    /\ UNCHANGED sideVars

\* engine.py:77-93: the size gate
SizeGate ==
    /\ epc = "gate"
    /\ LET tmp_bytes == _file_size(fs, call.tmp_path)
       IN  /\ IF NotSmaller(call.s, tmp_bytes, call.src_bytes)
              THEN /\ fs' = Remove(fs, call.tmp_path)
                   /\ call' = [call EXCEPT !.tmp_bytes = tmp_bytes, !.tmp_path = NoPath]
                   /\ ret' = ProcessResult(call.src_path, NoPath, call.src_bytes,
                                           call.src_bytes, FALSE, "not_smaller")
                   /\ epc' = "done"
              ELSE /\ fs' = fs
                   /\ call' = [call EXCEPT !.tmp_bytes = tmp_bytes]
                   /\ ret' = ret
                   /\ epc' = "finalize"
    /\ UNCHANGED <<dirs, pre, ncalls>>
    /\ UNCHANGED batchVars
    /\ UNCHANGED otherVars
    /\ UNCHANGED sideVars

\* engine.py:191-192: with overwrite, an existing output is deleted first
FinalizeUnlink ==
    /\ epc = "finalize"
    /\ call.s.overwrite /\ Exists(call.out_path)
    /\ fs' = Remove(fs, call.out_path)
    /\ epc' = "replace"
    /\ UNCHANGED <<dirs, call, ret, pre, ncalls>>
    /\ UNCHANGED batchVars
    /\ UNCHANGED otherVars
    /\ UNCHANGED sideVars

\* engine.py:193, 98-107: rename the temp file onto the output path and return
Replace ==
    /\ \/ epc = "replace"
       \/ epc = "finalize" /\ ~(call.s.overwrite /\ Exists(call.out_path))
    /\ fs' = Rename(fs, call.tmp_path, call.out_path)
    /\ ret' = ProcessResult(call.src_path, call.out_path, call.src_bytes,
                            _file_size(fs', call.out_path), TRUE, NoReason)
    /\ call' = [call EXCEPT !.tmp_path = NoPath]
    /\ epc' = "done"
    /\ UNCHANGED <<dirs, pre, ncalls>>
    /\ UNCHANGED batchVars
    /\ UNCHANGED otherVars
    /\ UNCHANGED sideVars

EngineFree == epc \in {"idle", "done", "raised"}

\* mkstemp finds a free name whatever the format: the model's names never run out
TempFree(s) == \A e \in {".jpg", ".png", ".webp"} :
    \E t \in TempIds : Resolve(File(s.output_dir, <<"bio_", t>>, e)) \notin DOMAIN fs

----------------------------------------------------------------------------
(* engine.py: the geometry steps of process_image, crop then resize.  A size  *)
(* is a record [w, h]; an Optional field is the empty set for None and a      *)
(* one-element set otherwise; a crop ratio is the fraction num/den with       *)
(* den > 0.  The code computes in floating point: for the sizes and ratios    *)
(* of the model its comparisons and its int() give what exact arithmetic      *)
(* gives.                                                                     *)

MaxSide == 4       \* largest width and height of a loaded image

None == {}

Val(o) == CHOOSE v \in o : TRUE

Size(w, h) == [w |-> w, h |-> h]

Ratio(n, d) == [num |-> n, den |-> d]

Max(a, b) == IF a >= b THEN a ELSE b

Abs(a) == IF a >= 0 THEN a ELSE -a

\* int(num / den) for den > 0: truncation towards zero
Trunc(num, den) == IF num >= 0 THEN num \div den ELSE -((-num) \div den)

ImageSizes == {Size(w, h) : w \in 1..MaxSide, h \in 1..MaxSide}

ScalePercents == {None, {0}, {50}, {100}, {150}}
MaxDims == {None, {-1}, {0}, {2}, {5}}
CropRatios == {None, {Ratio(1, 1)}, {Ratio(16, 9)}, {Ratio(1, 2)}, {Ratio(3, 2)},
               {Ratio(0, 1)}}

ImageSettings ==
    [scale_percent : ScalePercents,
     max_width : MaxDims,
     max_height : MaxDims,
     allow_upscale : BOOLEAN,
     crop_ratio : CropRatios]

\* the guard without the test of the new size
Upscales_never(s, w, h, new_w, new_h) == FALSE

\* engine.py:234: the scaled size is larger on an axis and that is not allowed
Upscales(s, w, h, new_w, new_h) == ~s.allow_upscale /\ (new_w > w \/ new_h > h)

\* engine.py:246-247, 250 needs w and h other than 0: max_w / w, max_h / h
ResizeDivides(sz, s) ==
    /\ s.scale_percent = None
    /\ ~(s.max_width = None /\ s.max_height = None)

\* engine.py:219-261: the size of the image _apply_resize returns
_apply_resize(sz, s) ==
    LET w == sz.w
        h == sz.h
    IN  IF s.scale_percent # None
        THEN LET pct == Max(1, Val(s.scale_percent))
                 new_w == Max(1, (w * pct) \div 100)
                 new_h == Max(1, (h * pct) \div 100)
             IN  IF Upscales(s, w, h, new_w, new_h) THEN sz
                 ELSE IF Size(new_w, new_h) = sz THEN sz
                 ELSE Size(new_w, new_h)
        ELSE IF s.max_width = None /\ s.max_height = None THEN sz
        ELSE LET max_w == IF s.max_width # None THEN Val(s.max_width) ELSE w
                 max_h == IF s.max_height # None THEN Val(s.max_height) ELSE h
                 \* scale = min(max_w / w, max_h / h), kept as the fraction sn / sd
                 byW == max_w * h <= max_h * w
                 sn == IF byW THEN max_w ELSE max_h
                 sd == IF byW THEN w ELSE h
             IN  IF ~s.allow_upscale /\ sn >= sd THEN sz
                 ELSE LET new_w == Max(1, Trunc(w * sn, sd))
                          new_h == Max(1, Trunc(h * sn, sd))
                      IN  IF Size(new_w, new_h) = sz THEN sz ELSE Size(new_w, new_h)

\* the length rounded up
CropLength_ceil(num, den) == (num + den - 1) \div den

\* engine.py:294, 299: int(h * ratio), int(w / ratio), for num >= 0 and den > 0
CropLength(num, den) == num \div den

\* engine.py:264-303: the size of the image _apply_center_crop returns
_apply_center_crop(sz, s) ==
    IF s.crop_ratio = None THEN sz
    ELSE LET ratio == Val(s.crop_ratio)
             w == sz.w
             h == sz.h
         IN  IF ratio.num <= 0 THEN sz
             ELSE IF w <= 0 \/ h <= 0 THEN sz
             \* abs(w / h - ratio) < 1e-6
             ELSE IF Abs(w * ratio.den - h * ratio.num) * 1000000 < h * ratio.den THEN sz
             \* current > ratio: too wide, crop the width
             ELSE IF w * ratio.den > h * ratio.num
                  THEN Size(CropLength(h * ratio.num, ratio.den), h)
                  ELSE Size(w, CropLength(w * ratio.den, ratio.num))

NoImage ==
    /\ im = Size(0, 0)
    /\ im_before = Size(0, 0)
    /\ s_img = CHOOSE x \in ImageSettings : TRUE
    /\ ipc = "none"

\* engine.py:51-52: an image is loaded
Loaded ==
    /\ im \in ImageSizes
    /\ im_before = im
    /\ s_img \in ImageSettings
    /\ ipc = "loaded"

\* engine.py:59
CenterCrop ==
    /\ ipc = "loaded"
    /\ im_before' = im
    /\ im' = _apply_center_crop(im, s_img)
    /\ ipc' = "cropped"
    /\ UNCHANGED s_img

\* engine.py:62
Resize ==
    /\ ipc = "cropped"
    /\ ~(ResizeDivides(im, s_img) /\ (im.w = 0 \/ im.h = 0))
    /\ im_before' = im
    /\ im' = _apply_resize(im, s_img)
    /\ ipc' = "resized"
    /\ UNCHANGED s_img

\* engine.py:250: the crop left a side of 0 pixels, the division raises
ResizeRaises ==
    /\ ipc = "cropped"
    /\ ResizeDivides(im, s_img) /\ (im.w = 0 \/ im.h = 0)
    /\ ipc' = "raised"
    /\ UNCHANGED <<im, im_before, s_img>>

mainVars == <<fs, dirs, epc, call, ret, pre, ncalls, bpc, job, image_list, idx,
              results, totals, summary, cancel_event, cancelAt, nruns, cfg>>

----------------------------------------------------------------------------
(* batch.py: iter_images *)

RECURSIVE SetToSeq(_)
SetToSeq(S) ==
    IF S = {} THEN <<>>
    ELSE LET x == CHOOSE y \in S : TRUE IN <<x>> \o SetToSeq(S \ {x})

RECURSIVE Concat(_)
Concat(ss) == IF ss = <<>> THEN <<>> ELSE Head(ss) \o Concat(Tail(ss))

\* p.glob("**/*") or p.glob("*"), files only: the paths keep the form of p
Glob(f, p, recursive) ==
    LET d == AsDir(p)
        rd == ResolveDir(d)
        under == {q \in DOMAIN f : IF recursive THEN IsPrefix(rd, q.dir) ELSE q.dir = rd}
    IN  SetToSeq({[q EXCEPT !.dir = d \o SubSeq(q.dir, Len(rd) + 1, Len(q.dir))] : q \in under})

\* the containment test on the path as given, not resolved
Excluded_unresolved(p, exclude_dir) == _is_relative_to(p, ResolveDir(exclude_dir))

\* batch.py:61, 75: the file lies inside the exclude directory
Excluded(p, exclude_dir) == _is_relative_to(Resolve(p), ResolveDir(exclude_dir))

\* batch.py:60-63, 72-78: the filter both branches apply to a file
Yielded(p, exclude_dir) ==
    /\ Lower(p.ext) \in SUPPORTED_EXTS
    /\ ~Excluded(p, exclude_dir)

\* batch.py:55-78 for one input path
Expand(f, ds, p, recursive, exclude_dir) ==
    IF Resolve(p) \in DOMAIN f
    THEN IF Yielded(p, exclude_dir) THEN <<p>> ELSE <<>>
    ELSE IF LooksLikeDir(p) /\ ResolveDir(AsDir(p)) \in ds
         THEN LET Keep(q) == Yielded(q, exclude_dir)
              IN  SelectSeq(Glob(f, p, recursive), Keep)
         ELSE <<>>

iter_images(f, ds, paths, recursive, exclude_dir) ==
    Concat([i \in 1..Len(paths) |-> Expand(f, ds, paths[i], recursive, exclude_dir)])

----------------------------------------------------------------------------
(* batch.py: BatchSummary and process_batch *)

BatchSummary(tf, pr, sk, ts, to) ==
    [total_files |-> tf, processed |-> pr, skipped |-> sk,
     total_src_bytes |-> ts, total_out_bytes |-> to]

NoSummary == BatchSummary(0, 0, 0, 0, 0)

\* the skip counter started at one
ZeroTotals_skipped1 == [total_src |-> 0, total_out |-> 0, processed |-> 0, skipped |-> 1,
                        total_files |-> 0]

ZeroTotals == [total_src |-> 0, total_out |-> 0, processed |-> 0, skipped |-> 0,
               total_files |-> 0]

DirIn == File(<<>>, <<"in">>, "")

\* the (inputs, recursive) arguments a run is given
JobChoices == {
    [inputs |-> <<DirIn>>, recursive |-> TRUE],
    [inputs |-> <<SrcA, SrcNotes>>, recursive |-> TRUE],
    [inputs |-> <<OldOut0, SrcB, DirIn>>, recursive |-> FALSE] }

NoJob == [inputs |-> <<>>, settings |-> CHOOSE x \in SettingsSpace : TRUE, recursive |-> TRUE]

Running == bpc \in {"loop", "call"}

\* batch.py:88-97
BatchStart(inputs, settings, recursive) ==
    /\ ~Running
    /\ EngineFree
    /\ epc = "idle" \/ nruns > 0
    /\ nruns < MaxRuns
    /\ LET il == iter_images(fs, dirs, inputs, recursive, settings.output_dir)
       IN  /\ ncalls + Len(il) <= MaxCalls
           /\ image_list' = il
    /\ nruns' = nruns + 1
    /\ job' = [inputs |-> inputs, settings |-> settings, recursive |-> recursive]
    /\ results' = <<>>
    /\ totals' = ZeroTotals
    /\ summary' = NoSummary
    /\ idx' = 1
    /\ bpc' = "loop"
    /\ cancel_event' = FALSE
    /\ cancelAt' = -1
    /\ report_json' = <<>>
    /\ UNCHANGED cfg
    /\ UNCHANGED engineVars
    /\ UNCHANGED imageVars

\* the loop without the test of the event
ShouldBreak_never(event_set) == FALSE

\* batch.py:100
ShouldBreak(event_set) == event_set

\* batch.py:118-125
Return ==
    /\ summary' = BatchSummary(totals.total_files, totals.processed, totals.skipped,
                               totals.total_src, totals.total_out)
    /\ bpc' = "returned"
    /\ UNCHANGED <<job, image_list, idx, results, totals, nruns>>

\* batch.py:99: the list is exhausted
BatchExhausted ==
    /\ bpc = "loop"
    /\ idx > Len(image_list)
    /\ Return
    /\ UNCHANGED otherVars
    /\ UNCHANGED sideVars
    /\ UNCHANGED engineVars

\* batch.py:100-101: the event is set, break
BatchCancelled ==
    /\ bpc = "loop"
    /\ idx <= Len(image_list)
    /\ ShouldBreak(cancel_event)
    /\ Return
    /\ UNCHANGED otherVars
    /\ UNCHANGED sideVars
    /\ UNCHANGED engineVars

\* batch.py:103-107: count the item and call process_image on it
BatchCall ==
    /\ bpc = "loop"
    /\ idx <= Len(image_list)
    /\ ~ShouldBreak(cancel_event)
    /\ TempFree(job.settings)
    /\ totals' = [totals EXCEPT !.total_files = @ + 1]
    /\ Begin(image_list[idx], job.settings, "batch")
    /\ bpc' = "call"
    /\ UNCHANGED <<job, image_list, idx, results, summary, nruns>>
    /\ UNCHANGED otherVars
    /\ UNCHANGED sideVars

\* the outcome put in front of the list
AppendResult_front(rs, r) == <<r>> \o rs

\* batch.py:108: results.append(r)
AppendResult(rs, r) == Append(rs, r)

\* batch.py:108-116: process_image returned
BatchAppend ==
    /\ bpc = "call"
    /\ epc = "done"
    /\ results' = AppendResult(results, ret)
    /\ totals' = [totals EXCEPT
           !.total_src = @ + ret.src_bytes,
           !.total_out = @ + ret.out_bytes,
           !.skipped = IF ret.out_path = NoPath THEN @ + 1 ELSE @,
           !.processed = IF ret.out_path = NoPath THEN @ ELSE @ + 1]
    /\ idx' = idx + 1
    /\ bpc' = "loop"
    /\ UNCHANGED <<job, image_list, summary, nruns>>
    /\ UNCHANGED otherVars
    /\ UNCHANGED sideVars
    /\ UNCHANGED engineVars

\* batch.py:107: process_image raised and nothing catches it
BatchRaise ==
    /\ bpc = "call"
    /\ epc = "raised"
    /\ bpc' = "raised"
    /\ UNCHANGED <<job, image_list, idx, results, totals, summary, nruns>>
    /\ UNCHANGED otherVars
    /\ UNCHANGED sideVars
    /\ UNCHANGED engineVars

\* the caller sets the event while the batch runs (gui.py:337-341)
Cancel ==
    /\ Running
    /\ ~cancel_event
    /\ cancel_event' = TRUE
    /\ cancelAt' = totals.total_files
    /\ UNCHANGED cfg
    /\ UNCHANGED engineVars
    /\ UNCHANGED batchVars
    /\ UNCHANGED sideVars

----------------------------------------------------------------------------
(* results.py, batch.py, report.py: the report.  A float rounded to two       *)
(* decimals is kept as its number of hundredths; a JSON literal is the        *)
(* sequence of its characters, a string the sequence of its pieces between    *)
(* quotes.                                                                    *)

\* results.py:22-24, batch.py:21-23: max(0, src - out)
saved_bytes(src, out) == Max(0, src - out)

\* int() for round(): the hundredths cut off
Round2_cut(num, den) == (num * 10000) \div den

\* report.py:44, 57: round(num / den * 100.0, 2) in hundredths, ties to even
Round2(num, den) ==
    LET lo == (num * 10000) \div den
        rest == (num * 10000) % den
    IN  IF 2 * rest > den \/ (2 * rest = den /\ lo % 2 = 1) THEN lo + 1 ELSE lo

\* results.py:26-30, batch.py:25-29 rounded as report.py:44, 57 rounds it
saved_percent2(src, out) ==
    IF src <= 0 THEN 0 ELSE Round2(saved_bytes(src, out), src)

\* str(path): the pieces of the path in order
PathStr(p) == p.dir \o p.stem \o <<p.ext>>

\* report.py:33
created_utc == <<"2024-01-01T00:00:00Z">>

\* report.py:37-47
FileReport(r) ==
    [src_path |-> PathStr(r.src_path),
     out_path |-> IF r.out_path # NoPath THEN {PathStr(r.out_path)} ELSE None,
     src_bytes |-> r.src_bytes,
     out_bytes |-> r.out_bytes,
     saved_bytes |-> saved_bytes(r.src_bytes, r.out_bytes),
     saved_percent |-> saved_percent2(r.src_bytes, r.out_bytes),
     changed |-> r.changed,
     skipped_reason |-> IF r.skipped_reason # NoReason THEN {<<r.skipped_reason>>} ELSE None]

\* report.py:32-60
build_report(rs, sm) ==
    [created_utc |-> created_utc,
     summary |-> [total_files |-> sm.total_files,
                  processed |-> sm.processed,
                  skipped |-> sm.skipped,
                  total_src_bytes |-> sm.total_src_bytes,
                  total_out_bytes |-> sm.total_out_bytes,
                  saved_bytes |-> saved_bytes(sm.total_src_bytes, sm.total_out_bytes),
                  saved_percent |-> saved_percent2(sm.total_src_bytes, sm.total_out_bytes)],
     files |-> [i \in 1..Len(rs) |-> FileReport(rs[i])]]

DigitChar == <<"0", "1", "2", "3", "4", "5", "6", "7", "8", "9">>

\* json.dump of an int >= 0: its decimal digits
RECURSIVE IntText(_)
IntText(n) ==
    IF n < 10 THEN <<DigitChar[n + 1]>>
    ELSE IntText(n \div 10) \o <<DigitChar[(n % 10) + 1]>>

\* json.dump of a float of c hundredths: repr keeps one decimal at least and
\* no zero after the last one
FloatText(c) ==
    IntText(c \div 100) \o <<".">>
    \o (IF c % 10 = 0 THEN <<DigitChar[((c % 100) \div 10) + 1]>>
        ELSE <<DigitChar[((c % 100) \div 10) + 1], DigitChar[(c % 10) + 1]>>)

BoolText(b) == IF b THEN <<"t", "r", "u", "e">> ELSE <<"f", "a", "l", "s", "e">>

\* json.dump of an Optional str: null, or the string between quotes
StrText(o) == IF o = None THEN <<"n", "u", "l", "l">> ELSE <<"\"">> \o Val(o) \o <<"\"">>

\* report.py:68: json.dump(asdict(report)), literal by literal
json_dump(rep) ==
    [created_utc |-> StrText({rep.created_utc}),
     summary |-> [total_files |-> IntText(rep.summary.total_files),
                  processed |-> IntText(rep.summary.processed),
                  skipped |-> IntText(rep.summary.skipped),
                  total_src_bytes |-> IntText(rep.summary.total_src_bytes),
                  total_out_bytes |-> IntText(rep.summary.total_out_bytes),
                  saved_bytes |-> IntText(rep.summary.saved_bytes),
                  saved_percent |-> FloatText(rep.summary.saved_percent)],
     files |-> [i \in 1..Len(rep.files) |->
                  [src_path |-> StrText({rep.files[i].src_path}),
                   out_path |-> StrText(rep.files[i].out_path),
                   src_bytes |-> IntText(rep.files[i].src_bytes),
                   out_bytes |-> IntText(rep.files[i].out_bytes),
                   saved_bytes |-> IntText(rep.files[i].saved_bytes),
                   saved_percent |-> FloatText(rep.files[i].saved_percent),
                   changed |-> BoolText(rep.files[i].changed),
                   skipped_reason |-> StrText(rep.files[i].skipped_reason)]]]

\* cli.py:155-158: the front end builds the report of the batch that returned
\* and writes report.json
Report ==
    /\ bpc = "returned"
    /\ report_json = <<>>
    /\ report_json' = <<json_dump(build_report(results, summary))>>
    /\ UNCHANGED mainVars
    /\ UNCHANGED imageVars
    /\ UNCHANGED frontVars

----------------------------------------------------------------------------
(* gui.py: the state of BioGui the run, cancel and poll handlers use *)

Message(kind, name, current, total, text) ==
    [kind |-> kind, name |-> name, current |-> current, total |-> total, text |-> text]

NoGuiState ==
    [worker |-> "none", polling |-> FALSE, run_btn |-> "normal", cancel_btn |-> "disabled",
     shown |-> "none", progress |-> 0, input_dir |-> NoPath, inputs |-> <<>>,
     orphans |-> 0, scheduled |-> 0, runs |-> 0]

\* gui.py:50-54
NoGui ==
    /\ gui = NoGuiState
    /\ _q = <<>>
    /\ posted = <<>>

----------------------------------------------------------------------------
(* cli.py: _parse_ratio and main.  A text is the sequence of its characters;  *)
(* float() is modelled on unsigned decimal texts, which give a fraction.      *)

Digit(ch) == \E d \in 1..10 : DigitChar[d] = ch

\* str.strip() on the spaces of the model's texts
RECURSIVE Strip(_)
Strip(text) ==
    IF text # <<>> /\ Head(text) = " " THEN Strip(Tail(text))
    ELSE IF text # <<>> /\ text[Len(text)] = " " THEN Strip(SubSeq(text, 1, Len(text) - 1))
    ELSE text

Count(text, ch) == Cardinality({k \in 1..Len(text) : text[k] = ch})

\* float(text) does not raise ValueError
IsFloat(text) ==
    LET tx == Strip(text)
    IN  /\ \A k \in 1..Len(tx) : Digit(tx[k]) \/ tx[k] = "."
        /\ Count(tx, ".") <= 1
        /\ \E k \in 1..Len(tx) : Digit(tx[k])

RECURSIVE Pow10(_)
Pow10(n) == IF n = 0 THEN 1 ELSE 10 * Pow10(n - 1)

RECURSIVE DigitsValue(_)
DigitsValue(ds) ==
    IF ds = <<>> THEN 0
    ELSE 10 * DigitsValue(SubSeq(ds, 1, Len(ds) - 1))
         + (CHOOSE d \in 0..9 : DigitChar[d + 1] = ds[Len(ds)])

\* float(text) of a text IsFloat accepts, as a fraction
Float(text) ==
    LET tx == Strip(text)
        ds == SelectSeq(tx, Digit)
        k == IF Count(tx, ".") = 0 THEN Len(tx)
             ELSE CHOOSE j \in 1..Len(tx) : tx[j] = "."
        decimals == IF Count(tx, ".") = 0 THEN 0 ELSE Len(tx) - k
    IN  Ratio(DigitsValue(ds), Pow10(decimals))

\* a, b = t.split(":", 1)
ColonAt(t) == CHOOSE k \in 1..Len(t) : t[k] = ":" /\ \A j \in 1..(k - 1) : t[j] # ":"

\* cli.py:23: den == 0
ZeroDen(den) == den.num = 0

\* cli.py:11-26: _parse_ratio raises ValueError
RatioRaises(text) ==
    LET t == Strip(text)
    IN  IF Count(t, ":") > 0
        THEN LET a == SubSeq(t, 1, ColonAt(t) - 1)
                 b == SubSeq(t, ColonAt(t) + 1, Len(t))
             IN  \/ ~IsFloat(a)
                 \/ ~IsFloat(b)
                 \/ ZeroDen(Float(b))
        ELSE ~IsFloat(t)

\* cli.py:11-26: the ratio _parse_ratio returns
_parse_ratio(text) ==
    LET t == Strip(text)
    IN  IF Count(t, ":") > 0
        THEN LET a == Float(SubSeq(t, 1, ColonAt(t) - 1))
                 b == Float(SubSeq(t, ColonAt(t) + 1, Len(t)))
             IN  Ratio(a.num * b.den, a.den * b.num)
        ELSE Float(t)

\* the values of --crop: absent, 1:1, 16:9, 1:0, 1:0.0, x, 1.5, 1:x, 1:1 in spaces
CropTexts == {
    None,
    {<<"1", ":", "1">>},
    {<<"1", "6", ":", "9">>},
    {<<"1", ":", "0">>},
    {<<"1", ":", "0", ".", "0">>},
    {<<"x">>},
    {<<"1", ".", "5">>},
    {<<"1", ":", "x">>},
    {<<" ", "1", ":", "1", " ">>} }

\* the values of --quality: argparse takes any int
Qualities == {0, 1, 82, 100, 101}

FrontEndArgs == [crop : CropTexts, quality : Qualities]

NoCli == [pc |-> "none", crop_ratio |-> None, jpeg_quality |-> 0, status |-> -1]

NoFrontEnd ==
    /\ args = CHOOSE a \in FrontEndArgs : TRUE
    /\ cli = NoCli
    /\ NoGui

\* cli.py:85-87: main is entered with the parsed arguments
CliEntered ==
    /\ args \in FrontEndArgs
    /\ cli = [NoCli EXCEPT !.pc = "parsed"]
    /\ NoGui

\* cli.py:108-128: the ratio is parsed, or ValueError leaves main; then the
\* settings are built from the arguments as they are
CliSettings ==
    /\ cli.pc = "parsed"
    /\ IF args.crop # None /\ Val(args.crop) # <<>> /\ RatioRaises(Val(args.crop))
       THEN cli' = [cli EXCEPT !.pc = "exited", !.status = 1]
       ELSE cli' = [cli EXCEPT
                !.pc = "built",
                !.crop_ratio = IF args.crop # None /\ Val(args.crop) # <<>>
                               THEN {_parse_ratio(Val(args.crop))} ELSE None,
                !.jpeg_quality = args.quality]
    /\ UNCHANGED <<mainVars, imageVars, report_json, args, guiVars>>

\* cli.py:130-134: main calls process_batch
CliBatch ==
    /\ cli.pc = "built"
    /\ \E j \in JobChoices : BatchStart(j.inputs, cfg, j.recursive)
    /\ cli' = [cli EXCEPT !.pc = "batch"]
    /\ UNCHANGED <<args, guiVars>>

\* cli.py:165: the report is written, main returns 0
CliReturn ==
    /\ cli.pc = "batch"
    /\ report_json # <<>>
    /\ cli' = [cli EXCEPT !.pc = "exited", !.status = 0]
    /\ UNCHANGED <<mainVars, imageVars, report_json, args, guiVars>>

\* cli.py:130: process_batch raised, nothing in main catches it
CliRaise ==
    /\ cli.pc = "batch"
    /\ bpc = "raised"
    /\ cli' = [cli EXCEPT !.pc = "exited", !.status = 1]
    /\ UNCHANGED <<mainVars, imageVars, report_json, args, guiVars>>

----------------------------------------------------------------------------
(* gui.py: _on_run, the worker, _on_cancel and _poll_queue *)

MissingDir == File(<<>>, <<"nowhere">>, "")

\* the folders the user can leave in the input field
InputDirs == {DirIn, MissingDir}

\* gui.py:399-419: _build_settings_from_ui raises ValueError
GuiInvalid ==
    \/ ~IsDir(gui.input_dir)
    \/ ResolveDir(AsDir(gui.input_dir)) = ResolveDir(cfg.output_dir)
    \/ ~(1 <= args.quality /\ args.quality <= 100)
    \/ args.crop # None /\ Strip(Val(args.crop)) # <<>> /\ RatioRaises(Val(args.crop))

\* batch.py:81-87: the parameters of process_batch
ProcessBatchParams == {"inputs", "settings", "recursive", "progress_callback", "cancel_event"}

\* gui.py:305-312: the keywords the worker calls process_batch with
GuiKeywords == {"recursive", "progress_callback", "cancel_event", "file_callback"}

\* the call binds: every keyword names a parameter
Binds(keywords) == keywords \subseteq ProcessBatchParams

\* gui.py:21-59: the window is up, the fields hold what the user typed
GuiUp ==
    /\ args \in FrontEndArgs
    /\ cli = NoCli
    /\ gui \in {[NoGuiState EXCEPT !.input_dir = d] : d \in InputDirs}
    /\ _q = <<>>
    /\ posted = <<>>

\* the worker threads that have not ended: the one self._worker refers to and
\* those it no longer refers to
Alive(g) == (IF g.worker = "alive" THEN 1 ELSE 0) + g.orphans

\* the test left out: a worker is never taken to be running
AlreadyRunning_never(g) == FALSE

\* gui.py:272: self._worker and self._worker.is_alive()
AlreadyRunning(g) == g.worker = "alive"

\* gui.py:271-295, 334-335: _on_run, the command of the Run button (gui.py:90),
\* is entered; a run is started at most MaxRuns times
OnRun ==
    /\ IF AlreadyRunning(gui)
       THEN /\ gui' = [gui EXCEPT !.shown = "running"]
            /\ UNCHANGED <<cancel_event, posted>>
       ELSE IF GuiInvalid
       THEN /\ gui' = [gui EXCEPT !.shown = "invalid"]
            /\ UNCHANGED <<cancel_event, posted>>
       ELSE /\ gui.runs < MaxRuns
            /\ gui' = [gui EXCEPT !.run_btn = "disabled", !.cancel_btn = "normal",
                                  !.progress = 0, !.shown = "Running...",
                                  !.polling = TRUE, !.scheduled = gui.scheduled + 1,
                                  !.worker = "alive", !.orphans = Alive(gui),
                                  !.runs = gui.runs + 1,
                                  !.inputs = <<gui.input_dir>>]
            /\ cancel_event' = FALSE
            /\ posted' = <<>>
    /\ UNCHANGED <<fs, dirs, epc, call, ret, pre, ncalls, bpc, job, image_list, idx,
                   results, totals, summary, cancelAt, nruns, cfg>>
    /\ UNCHANGED <<imageVars, report_json, args, cli, _q>>

\* gui.py:297-332: a worker calls process_batch with a keyword it does not
\* take; the TypeError is caught and put on the queue, and the thread ends
Work ==
    /\ Alive(gui) > 0
    /\ ~Binds(GuiKeywords)
    /\ _q' = Append(_q, Message("error", <<>>, 0, 0, "TypeError"))
    /\ posted' = Append(posted, Message("error", <<>>, 0, 0, "TypeError"))
    /\ gui' = IF gui.worker = "alive"
              THEN [gui EXCEPT !.worker = "dead"]
              ELSE [gui EXCEPT !.orphans = gui.orphans - 1]
    /\ UNCHANGED <<mainVars, imageVars, report_json, args, cli>>

\* gui.py:337-341: _on_cancel, the command of the Cancel button (gui.py:93),
\* is entered
OnCancel ==
    /\ IF gui.worker = "alive"
       THEN /\ cancel_event' = TRUE
            /\ gui' = [gui EXCEPT !.shown = "Cancel requested", !.cancel_btn = "disabled"]
       ELSE UNCHANGED <<cancel_event, gui>>
    /\ UNCHANGED <<fs, dirs, epc, call, ret, pre, ncalls, bpc, job, image_list, idx,
                   results, totals, summary, cancelAt, nruns, cfg>>
    /\ UNCHANGED <<imageVars, report_json, args, cli, _q, posted>>

\* gui.py:380-396: _finish_ok and _finish_err
Finished(g, how) ==
    [g EXCEPT !.polling = FALSE, !.run_btn = "normal", !.cancel_btn = "disabled",
              !.shown = how]

\* gui.py:344-370: the loop over the queue, up to the first done or error
RECURSIVE Drain(_, _)
Drain(queue, g) ==
    IF queue = <<>> THEN [queue |-> queue, gui |-> g]
    ELSE LET item == Head(queue)
         IN  CASE item.kind = "progress" ->
                    Drain(Tail(queue), [g EXCEPT !.progress = item.current])
               [] item.kind = "file" -> Drain(Tail(queue), g)
               [] item.kind = "done" -> [queue |-> Tail(queue), gui |-> Finished(g, item.text)]
               [] item.kind = "error" -> [queue |-> Tail(queue), gui |-> Finished(g, "ERROR")]

\* gui.py:343-378: a _poll_queue scheduled with after() runs, and schedules
\* itself again when _polling is still set
PollQueue ==
    /\ gui.scheduled > 0
    /\ LET drained == Drain(_q, gui)
       IN  /\ _q' = drained.queue
           /\ gui' = [drained.gui EXCEPT
                        !.scheduled = gui.scheduled - 1
                                      + (IF drained.gui.polling THEN 1 ELSE 0)]
    /\ UNCHANGED <<mainVars, imageVars, report_json, args, cli, posted>>

\* the paths process_image is called on directly
DirectSources == {SrcA, SrcC, SrcNotes}

\* a caller other than process_batch calls process_image
DirectCall ==
    /\ nruns = 0
    /\ EngineFree
    /\ ncalls < MaxCalls
    /\ TempFree(cfg)
    /\ \E src \in DirectSources : Begin(src, cfg, "direct")
    /\ UNCHANGED batchVars
    /\ UNCHANGED otherVars
    /\ UNCHANGED sideVars

Start ==
    /\ \E j \in JobChoices : BatchStart(j.inputs, cfg, j.recursive)
    /\ UNCHANGED frontVars

\* the state before any call: a tree on disk, a configuration, nothing run
InitMain ==
    /\ fs \in InitialTrees
    /\ dirs = {ResolveDir(InDir)} \cup Ancestors(Cwd)
              \cup (IF Resolve(OldOut0) \in DOMAIN fs THEN {ResolveDir(OutDirRel)} ELSE {})
    /\ epc = "idle"
    /\ call = NoCall
    /\ ret = NoResult
    /\ pre = fs
    /\ ncalls = 0
    /\ bpc = "idle"
    /\ job = NoJob
    /\ image_list = <<>>
    /\ idx = 1
    /\ results = <<>>
    /\ totals = ZeroTotals
    /\ summary = NoSummary
    /\ cancel_event = FALSE
    /\ cancelAt = -1
    /\ nruns = 0
    /\ cfg \in SettingsSpace

Init == InitMain /\ NoImage /\ report_json = <<>> /\ NoFrontEnd

Next ==
    \/ Start
    \/ BatchExhausted
    \/ BatchCancelled
    \/ BatchCall
    \/ BatchAppend
    \/ BatchRaise
    \/ Cancel
    \/ DirectCall
    \/ Report
    \/ MkStemp
    \/ SaveOpen
    \/ Save
    \/ SaveRaises
    \/ SizeGate
    \/ FinalizeUnlink
    \/ Replace

Spec == Init /\ [][Next]_vars

\* one tree and one configuration, for the specifications of the parts that
\* touch neither
Quiet ==
    /\ InitMain
    /\ fs = Tree({SrcA, SrcB, SrcNotes})
    /\ cfg = NoCall.s

InitImage == Quiet /\ Loaded /\ report_json = <<>> /\ NoFrontEnd

NextImage ==
    \/ CenterCrop /\ UNCHANGED <<mainVars, report_json, frontVars>>
    \/ Resize /\ UNCHANGED <<mainVars, report_json, frontVars>>
    \/ ResizeRaises /\ UNCHANGED <<mainVars, report_json, frontVars>>

SpecImage == InitImage /\ [][NextImage]_vars

InitCli == InitMain /\ NoImage /\ report_json = <<>> /\ CliEntered

NextCli ==
    \/ CliSettings
    \/ CliBatch
    \/ CliReturn
    \/ CliRaise
    \/ BatchExhausted
    \/ BatchCall
    \/ BatchAppend
    \/ BatchRaise
    \/ Report
    \/ MkStemp
    \/ SaveOpen
    \/ Save
    \/ SaveRaises
    \/ SizeGate
    \/ FinalizeUnlink
    \/ Replace

SpecCli == InitCli /\ [][NextCli]_vars

InitGui == Quiet /\ NoImage /\ report_json = <<>> /\ GuiUp

NextGui ==
    \/ OnRun
    \/ Work
    \/ OnCancel
    \/ PollQueue

SpecGui == InitGui /\ [][NextGui]_vars

\* a file an earlier in-place run left beside the source
OldInPlace1 == File(InDir, <<"a", " (1)">>, ".jpg")

\* the trees of the in-place runs
InPlaceTrees == {
    Tree({SrcA, SrcB, SrcNotes}),
    Tree({SrcA, SrcNotes, OldInPlace1}) }

\* settings.py:13, 31: the output directory is the sources' own, the suffix
\* is empty or the default
InPlaceSettings ==
    {[s EXCEPT !.output_dir = InDir, !.suffix = sfx] :
        s \in SettingsSpace, sfx \in {"", "_optimized"}}

\* process_image is called with the sources' directory as the output directory
InitInPlace ==
    /\ fs \in InPlaceTrees
    /\ dirs = {ResolveDir(InDir)} \cup Ancestors(Cwd)
    /\ epc = "idle"
    /\ call = NoCall
    /\ ret = NoResult
    /\ pre = fs
    /\ ncalls = 0
    /\ bpc = "idle"
    /\ job = NoJob
    /\ image_list = <<>>
    /\ idx = 1
    /\ results = <<>>
    /\ totals = ZeroTotals
    /\ summary = NoSummary
    /\ cancel_event = FALSE
    /\ cancelAt = -1
    /\ nruns = 0
    /\ cfg \in InPlaceSettings
    /\ NoImage
    /\ report_json = <<>>
    /\ NoFrontEnd

NextInPlace ==
    \/ DirectCall
    \/ MkStemp
    \/ SaveOpen
    \/ Save
    \/ SaveRaises
    \/ SizeGate
    \/ FinalizeUnlink
    \/ Replace

SpecInPlace == InitInPlace /\ [][NextInPlace]_vars

----------------------------------------------------------------------------
(* Vocabulary of the properties *)

\* the last process_image call returned a ProcessResult
Returned == epc = "done"

\* the last call got as far as the size gate: the encoder wrote tmp_bytes >= 1 bytes
Gated == Returned /\ call.tmp_bytes >= 1

Supported(p) == p.ext \in {".jpg", ".JPG", ".jpeg", ".png", ".PNG", ".webp"}

IsTemp(q) == q.stem # <<>> /\ q.stem[1] = "bio_"

InOutputDir(q, s) == q.dir = ResolveDir(s.output_dir)

\* the un-numbered output path 'name.ext' of the last call
BasePath == _build_output_path(call.src_path, call.s, call.out_format)

Numbered(i) == [BasePath EXCEPT !.stem = BasePath.stem \o <<CounterTag[i]>>]

WasThere(p) == Resolve(p) \in DOMAIN pre

\* every file that was there when the call started is as it was
EarlierFilesKept == \A q \in DOMAIN pre : q \in DOMAIN fs /\ fs[q] = pre[q]

RECURSIVE SumOf(_, _)
SumOf(seq, field) ==
    IF seq = <<>> THEN 0 ELSE Head(seq)[field] + SumOf(Tail(seq), field)

Written(seq) == {i \in 1..Len(seq) : seq[i].out_path # NoPath}

\* the BatchSummary a list of outcomes amounts to
Aggregate(seq) ==
    BatchSummary(Len(seq), Cardinality(Written(seq)),
                 Len(seq) - Cardinality(Written(seq)),
                 SumOf(seq, "src_bytes"), SumOf(seq, "out_bytes"))

----------------------------------------------------------------------------
(* The properties *)

C2_OverrideKeepsFile ==
    (Gated /\ call.s.write_even_if_bigger_when_stripping_metadata
           /\ call.s.strip_metadata /\ call.s.only_if_smaller
           /\ call.tmp_bytes >= call.src_bytes)
    => /\ ret.out_path # NoPath
       /\ ret.changed
       /\ ret.skipped_reason = NoReason

\* C3: without overwrite, a run that passes the size gate writes 'name.ext' when
\* that is unused and otherwise the lowest-numbered unused 'name (i).ext', i >= 1,
\* so two runs give 'name.ext' and 'name (1).ext'; the files of earlier runs are
\* left as they were.
C3_NumberedNames ==
    (Returned /\ ret.changed /\ ~call.s.overwrite)
    => /\ ~WasThere(ret.out_path)
       /\ IF ~WasThere(BasePath)
          THEN ret.out_path = BasePath
          ELSE \E i \in 1..Len(CounterTag) :
                  /\ ret.out_path = Numbered(i)
                  /\ \A j \in 1..(i - 1) : WasThere(Numbered(j))
       /\ Exists(ret.out_path) /\ fs[Resolve(ret.out_path)].run = ncalls
       /\ EarlierFilesKept

\* the second of two runs on one source: the first wrote 'name.ext', this one 'name (1).ext'
C3_Witness ==
    /\ Returned /\ ret.changed /\ ~call.s.overwrite
    /\ ncalls >= 2
    /\ WasThere(BasePath) /\ pre[Resolve(BasePath)].run = ncalls - 1
    /\ ret.out_path = Numbered(1)
    /\ fs[Resolve(BasePath)] = pre[Resolve(BasePath)]

\* C4: with overwrite, every run that passes the size gate writes the
\* un-numbered 'name.ext' and creates no other file, so any number of runs leave
\* one output file for the source, and its content is the latest run's.
C4_OverwriteKeepsOne ==
    (Returned /\ ret.changed /\ call.s.overwrite)
    => /\ ret.out_path = BasePath
       /\ DOMAIN fs = DOMAIN pre \cup {Resolve(BasePath)}
       /\ fs[Resolve(BasePath)] = Content(call.tmp_bytes, TRUE, ncalls, TRUE)
       /\ ret.out_bytes = call.tmp_bytes
       /\ \A q \in DOMAIN pre \ {Resolve(BasePath)} : fs[q] = pre[q]
       /\ {q \in DOMAIN fs : /\ fs[q].run >= 1
                              /\ ~IsTemp(q)
                              /\ q.stem[1] = call.src_path.stem[1]} = {Resolve(BasePath)}

\* the second of two overwriting runs on one source
C4_Witness ==
    /\ Returned /\ ret.changed /\ call.s.overwrite
    /\ ncalls >= 2
    /\ WasThere(BasePath) /\ pre[Resolve(BasePath)].run = ncalls - 1
    /\ fs[Resolve(BasePath)].run = ncalls

\* C5: when the event is set before item k is processed (k - 1 items had passed
\* the check), process_batch returns exactly the outcomes of items 1..k-1, and
\* every total of the Summary is computed from those outcomes only.
C5_CancelledBeforeK ==
    (bpc = "returned" /\ cancelAt >= 0)
    => /\ Len(results) = cancelAt
       /\ Len(results) <= Len(image_list)
       /\ \A i \in 1..Len(results) : results[i].src_path = image_list[i]
       /\ summary = Aggregate(results)

\* cancelled before item 2 of a list of at least 2: one outcome
C5_Witness ==
    /\ bpc = "returned"
    /\ cancelAt = 1
    /\ Len(image_list) >= 2
    /\ Len(results) = 1
    /\ summary.total_files = 1

\* C6: a failure while transforming one file does not abort the batch: it is
\* recorded as a skip outcome with a diagnostic skip-reason and the remaining
\* files are processed, so an uncancelled batch returns one outcome per file.
C6_FailureDoesNotAbort ==
    /\ bpc # "raised"
    /\ (bpc = "returned" /\ cancelAt = -1) => Len(results) = Len(image_list)

\* C7 as stated: an unsupported file among the inputs of a batch run gets an
\* outcome with skip-reason unsupported_extension.
C7_BatchReportsUnsupported ==
    (bpc = "returned" /\ cancelAt = -1)
    => \A i \in 1..Len(job.inputs) :
          (IsFile(job.inputs[i]) /\ ~Supported(job.inputs[i]))
          => \E k \in 1..Len(results) :
                /\ results[k].src_path = job.inputs[i]
                /\ results[k].skipped_reason = "unsupported_extension"

\* C7 amended: process_image called on an unsupported file returns skip-reason
\* unsupported_extension, changed = FALSE, out_bytes = src_bytes and no output
\* path, and opens, creates and writes nothing; process_batch never hands such
\* a file to process_image, so a batch has no outcome for it.
C7_UnsupportedIsSkipped ==
    /\ (epc # "idle" /\ ~Supported(call.src_path))
       => /\ Returned
          /\ ret = ProcessResult(call.src_path, NoPath, call.src_bytes,
                                 call.src_bytes, FALSE, "unsupported_extension")
          /\ call.src_bytes = _file_size(pre, call.src_path)
          /\ ~call.opened
          /\ fs = pre
          /\ call.by = "direct"
    /\ \A i \in 1..Len(image_list) : Supported(image_list[i])
    /\ \A k \in 1..Len(results) : Supported(results[k].src_path)

C7_Witness ==
    /\ Returned
    /\ call.src_path = SrcNotes
    /\ ret.skipped_reason = "unsupported_extension"
    /\ ret.out_bytes = SrcBytes

\* C8: with dry_run set, process_image leaves no temp file and no output file
\* behind: the files after the call are the files before it.
C8_DryRunLeavesNothing ==
    (Returned /\ call.s.dry_run) => fs = pre

\* the steps that change a file other than a temp file: the rename of the
\* whole temp file onto the output path, and with overwrite the delete before it
OnlyRenamed ==
    /\ \A q \in DOMAIN fs' :
          (~IsTemp(q) /\ (q \notin DOMAIN fs \/ fs'[q] # fs[q]))
          => /\ epc \in {"finalize", "replace"}
             /\ q = Resolve(call.out_path)
             /\ Exists(call.tmp_path)
             /\ fs[Resolve(call.tmp_path)].whole
             /\ fs'[q] = fs[Resolve(call.tmp_path)]
             /\ Resolve(call.tmp_path) \notin DOMAIN fs'
    /\ \A q \in DOMAIN fs \ DOMAIN fs' :
          ~IsTemp(q) => (epc = "finalize" /\ call.s.overwrite /\ q = Resolve(call.out_path))

\* every file other than a temp file is whole, and the encoder's target is a
\* temp path other than the output path
WholeOutputs ==
    /\ \A q \in DOMAIN fs : IsTemp(q) \/ fs[q].whole
    /\ epc \in {"save", "write", "gate", "finalize", "replace"}
       => /\ IsTemp(call.tmp_path)
          /\ call.tmp_path # call.out_path
          /\ ~IsTemp(call.out_path)

\* C9: no reader of a final output path sees a partly written file: at every
\* step of a transformation every file that is not a temp file is whole, the
\* encoder writes only to a temp path other than the output path, and an
\* output path gets content only by the rename of a whole temp file.
C9_OutputsAreWhole == []WholeOutputs /\ [][OnlyRenamed]_vars

\* an existing output is being replaced: it is deleted, the whole temp file waits
C9_Witness ==
    /\ epc = "replace"
    /\ WasThere(call.out_path)
    /\ ~Exists(call.out_path)
    /\ fs[Resolve(call.tmp_path)].whole

\* C10: the enumerator never yields a file that lies inside the output
\* directory, so no batch processes an output of this or an earlier run; a
\* direct file input is yielded iff it is supported and outside that directory.
C10_OutputsNotReingested ==
    /\ \A i \in 1..Len(image_list) :
          ~IsPrefix(ResolveDir(job.settings.output_dir), Resolve(image_list[i]).dir)
    /\ (call.by = "batch" /\ IsFile(call.src_path))
       => fs[Resolve(call.src_path)].run = 0
    /\ bpc # "idle" =>
          \A i \in 1..Len(job.inputs) :
             IsFile(job.inputs[i]) =>
                ((\E k \in 1..Len(image_list) : image_list[k] = job.inputs[i])
                 <=> (/\ Supported(job.inputs[i])
                      /\ ~IsPrefix(ResolveDir(job.settings.output_dir),
                                   Resolve(job.inputs[i]).dir)))

\* a second run starts over a tree that holds outputs of an earlier call
C10_Witness ==
    /\ nruns = 2
    /\ bpc = "loop"
    /\ image_list # <<>>
    /\ \E q \in DOMAIN fs : InOutputDir(q, job.settings) /\ fs[q].run >= 1

\* C11: the list the enumerator produces holds no file twice, also when a file
\* is named twice, is named directly and lies in a listed directory, or lies in
\* two listed directories; so a batch has at most one outcome per file.
C11_NoDuplicates ==
    /\ \A i, j \in 1..Len(image_list) :
          Resolve(image_list[i]) = Resolve(image_list[j]) => i = j
    /\ \A i, j \in 1..Len(results) :
          Resolve(results[i].src_path) = Resolve(results[j].src_path) => i = j

\* the engine is between the start and the end of a process_image call
InFlight == epc \notin {"idle", "done", "raised"}

\* the outcome list is the outcomes of a prefix of the enumerated list, and the
\* only item in flight is the one after that prefix
InOrder ==
    /\ Len(results) <= Len(image_list)
    /\ \A i \in 1..Len(results) : results[i].src_path = image_list[i]
    /\ Running => idx = Len(results) + 1
    /\ bpc = "call"
       => /\ idx <= Len(image_list)
          /\ call.src_path = image_list[idx]
          /\ call.by = "batch"
          /\ totals.total_files = idx
    /\ (nruns > 0 /\ InFlight) => bpc = "call"

\* the outcome list changes only by being emptied at the start of a run or by
\* the outcome just returned being added at its end, and an item is started
\* only when the outcomes of all items before it are in the list
OneAtATime ==
    /\ results' # results
       => \/ results' = <<>> /\ bpc' = "loop" /\ idx' = 1
          \/ epc = "done" /\ results' = Append(results, ret) /\ idx' = idx + 1
    /\ (ncalls' # ncalls /\ bpc' = "call")
       => /\ ~InFlight
          /\ Len(results) = idx - 1
          /\ call'.src_path = image_list[idx]

\* C12: outcomes are produced and returned in the enumeration order: in every
\* state of a batch the outcome list is the outcomes of a prefix of the
\* enumerated list, the i-th outcome is the i-th path's, and at most one item
\* is in flight (item i+1 is not started before outcome i is appended).
C12_EnumerationOrder == []InOrder /\ [][OneAtATime]_vars

\* the second item of a run is in flight, the first one's outcome is in the list
C12_Witness ==
    /\ bpc = "call"
    /\ idx = 2
    /\ Len(results) = 1
    /\ results[1].src_path # image_list[2]
    /\ epc = "write"

\* C14: the Summary process_batch returns is the aggregate of the outcome list
\* it returns, cancelled or not: processed counts the outcomes with an output
\* path, skipped those without, total_files is their sum and the number of
\* outcomes, and the byte totals sum src_bytes and out_bytes over all outcomes.
C14_SummaryIsAggregate ==
    bpc = "returned"
    => /\ summary.processed = Cardinality(Written(results))
       /\ summary.skipped = Len(results) - Cardinality(Written(results))
       /\ summary.total_files = summary.processed + summary.skipped
       /\ summary.total_files = Len(results)
       /\ summary.total_src_bytes = SumOf(results, "src_bytes")
       /\ summary.total_out_bytes = SumOf(results, "out_bytes")

\* a returned batch with a written outcome and a skipped one
C14_Witness ==
    /\ bpc = "returned"
    /\ summary.processed >= 1
    /\ summary.skipped >= 1
    /\ summary.total_out_bytes < summary.total_src_bytes

\* C19: cancellation is honoured only between files: when the event is set
\* while item k is being transformed, item k runs to completion or failure, its
\* outcome is appended and counted, none of its temp files is left, item k+1 is
\* never started, and the batch returns exactly k outcomes.  (An event set
\* between two items leaves the batch in the same states, by C5.)
C19_InFlightCompletes ==
    (cancel_event /\ cancelAt >= 1)
    => /\ bpc # "raised"
       /\ totals.total_files = cancelAt
       /\ bpc = "returned"
          => /\ Len(results) = cancelAt
             /\ summary.total_files = cancelAt
             /\ \A q \in DOMAIN fs : IsTemp(q) => fs[q].run # ncalls

\* the crop step ran with a valid positive ratio
Cropped == ipc = "cropped" /\ s_img.crop_ratio # None /\ Val(s_img.crop_ratio).num > 0

\* the resize step ran on an image of at least one pixel a side
Resized == ipc = "resized" /\ im_before.w >= 1 /\ im_before.h >= 1

\* C15: unless allow_upscale is set, for every image size (w, h >= 1) and every
\* combination of scale_percent, max_width and max_height the size after
\* _apply_resize has new_w <= w and new_h <= h; and in every case both sides
\* are at least 1 pixel.
C15_NoUpscale ==
    Resized
    => /\ ~s_img.allow_upscale => (im.w <= im_before.w /\ im.h <= im_before.h)
       /\ im.w >= 1 /\ im.h >= 1

\* a scale of 150 percent is asked for and refused: the size stays
C15_Witness ==
    /\ Resized
    /\ s_img.scale_percent = {150}
    /\ ~s_img.allow_upscale
    /\ im_before = Size(2, 2)
    /\ im = im_before

DigitOf(ch) == CHOOSE d \in 0..9 : DigitChar[d + 1] = ch

RECURSIVE IntOf(_)
IntOf(text) ==
    IF Len(text) = 1 THEN DigitOf(text[1])
    ELSE 10 * IntOf(SubSeq(text, 1, Len(text) - 1)) + DigitOf(text[Len(text)])

PointAt(text) == CHOOSE k \in 1..Len(text) : text[k] = "."

\* the hundredths of a decimal literal with one or two decimals
FloatOf(text) ==
    LET k == PointAt(text)
        decimals == SubSeq(text, k + 1, Len(text))
    IN  100 * IntOf(SubSeq(text, 1, k - 1))
        + (IF Len(decimals) = 1 THEN 10 * DigitOf(decimals[1]) ELSE IntOf(decimals))

\* the string of a string literal
StrOf(text) == SubSeq(text, 2, Len(text) - 1)

\* c hundredths is num / den * 100 rounded to two decimals
IsRounded2(c, num, den) ==
    LET d == c * den - num * 10000 IN 2 * Abs(d) <= den

\* C18: the report built by build_report and written by save_report_json, read
\* back, has the summary totals (total_files, processed, skipped,
\* total_src_bytes, total_out_bytes, saved_bytes) of the Summary in memory, a
\* saved_percent equal to the Summary's rounded to 2 decimals, and a files list
\* with one entry per outcome in the same order.
C18_ReportRoundTrip ==
    report_json # <<>>
    => LET doc == report_json[1]
           sm == doc.summary
           saved == IF summary.total_src_bytes > summary.total_out_bytes
                    THEN summary.total_src_bytes - summary.total_out_bytes ELSE 0
       IN  /\ IntOf(sm.total_files) = summary.total_files
           /\ IntOf(sm.processed) = summary.processed
           /\ IntOf(sm.skipped) = summary.skipped
           /\ IntOf(sm.total_src_bytes) = summary.total_src_bytes
           /\ IntOf(sm.total_out_bytes) = summary.total_out_bytes
           /\ IntOf(sm.saved_bytes) = saved
           /\ IF summary.total_src_bytes <= 0
              THEN FloatOf(sm.saved_percent) = 0
              ELSE IsRounded2(FloatOf(sm.saved_percent), saved, summary.total_src_bytes)
           /\ Len(doc.files) = Len(results)
           /\ \A i \in 1..Len(results) :
                 /\ StrOf(doc.files[i].src_path) = PathStr(results[i].src_path)
                 /\ IntOf(doc.files[i].src_bytes) = results[i].src_bytes
                 /\ IntOf(doc.files[i].out_bytes) = results[i].out_bytes
                 /\ (doc.files[i].out_path = <<"n", "u", "l", "l">>)
                    <=> (results[i].out_path = NoPath)

\* the report of two outcomes whose saving is a sixth of the bytes: 16.67
C18_Witness ==
    /\ report_json # <<>>
    /\ Len(results) = 2
    /\ results[1].src_path # results[2].src_path
    /\ summary.total_src_bytes = 2 * SrcBytes
    /\ summary.total_src_bytes - summary.total_out_bytes = 1
    /\ report_json[1].summary.saved_percent
          = FloatText(Round2(1, 2 * SrcBytes))

\* the configuration errors of the claim: a crop text that is no ratio (x,
\* 1:x), a zero denominator (1:0, 1:0.0), a quality outside 1..100
BadRatios == {<<"1", ":", "0">>, <<"1", ":", "0", ".", "0">>, <<"x">>, <<"1", ":", "x">>}

ConfigError ==
    \/ args.crop # None /\ Val(args.crop) \in BadRatios
    \/ args.quality < 1
    \/ args.quality > 100

\* C17: a configuration error (crop text that is no ratio, zero denominator,
\* quality out of range) is reported before process_batch is called: no file
\* is enumerated, processed or written and no report is produced; and the exit
\* status is non-zero in that case only, 0 for every run that starts.
C17_EagerConfigErrors ==
    /\ ConfigError
       => /\ cli.pc \in {"parsed", "exited"}
          /\ nruns = 0 /\ ncalls = 0
          /\ fs = pre
          /\ report_json = <<>>
    /\ cli.pc = "exited" => (cli.status # 0 <=> ConfigError)

\* the candidates of the run the GUI started
GuiCandidates == iter_images(fs, dirs, gui.inputs, TRUE, cfg.output_dir)

\* gui.py:303, path.name
PathName(p) == p.stem \o <<p.ext>>

IsProgress(m) == m.kind = "progress"

IsFileMessage(m) == m.kind = "file"

\* C13: for every item that is processed the supplied onProgress(index, total)
\* and onFile(path, index, total) are each invoked once, before the item is
\* transformed and after the cancellation check, with index 1, 2, ... in
\* enumeration order and total the number of candidates; none is invoked for an
\* item cancellation leaves out.  A run that is not cancelled processes every
\* candidate, so its worker has put one progress and one file message per
\* candidate when it ends.
C13_CallbacksPerItem ==
    (gui.worker = "dead" /\ ~cancel_event)
    => LET total == Len(GuiCandidates)
       IN  /\ SelectSeq(posted, IsProgress)
                = [i \in 1..total |-> Message("progress", <<>>, i, total, "")]
           /\ SelectSeq(posted, IsFileMessage)
                = [i \in 1..total |->
                      Message("file", PathName(GuiCandidates[i]), i, total, "")]

\* C20: every run started from the GUI ends by putting a done message with the
\* summary on the queue, marked CANCELLED when the loop stopped on the event.
C20_DoneAlwaysPosted ==
    gui.worker = "dead"
    => /\ posted # <<>>
       /\ posted[Len(posted)].kind = "done"
       /\ cancel_event => posted[Len(posted)].text = "CANCELLED"

\* a step writes only to a path that is not there: the temp file mkstemp
\* creates and the encoder fills, and the output path the temp file is renamed
\* onto; it removes nothing but that temp file
FreshWrites ==
    ~cfg.overwrite
    => /\ \A q \in DOMAIN fs' :
             (q \notin DOMAIN fs \/ fs'[q] # fs[q])
             => /\ q \notin DOMAIN pre
                /\ \/ IsTemp(q) /\ q = Resolve(call'.tmp_path)
                   \/ /\ q = Resolve(call.out_path)
                      /\ q \notin DOMAIN fs
                      /\ fs'[q] = fs[Resolve(call.tmp_path)]
       /\ \A q \in DOMAIN fs \ DOMAIN fs' :
             q = Resolve(call.tmp_path) /\ q \notin DOMAIN pre

\* the source of the call in progress is on disk as it was
SourceKept ==
    (epc # "idle" /\ WasThere(call.src_path))
    => /\ Exists(call.src_path)
       /\ fs[Resolve(call.src_path)] = pre[Resolve(call.src_path)]

\* C21: with overwrite disabled no sequence of process_image calls modifies or
\* deletes a file that existed before the call that would touch it, the
\* source least of all, even when the output directory is the source's own
\* and the suffix is empty so that the constructed output path is the source
\* path: every write goes to a path that did not exist when it was chosen.
C21_ExistingFilesKept ==
    /\ [](~cfg.overwrite => (EarlierFilesKept /\ SourceKept))
    /\ [][FreshWrites]_vars

\* in place, empty suffix: the constructed path is the source, the output is
\* written beside it as 'a (1).jpg'
C21_Witness ==
    /\ Returned /\ ret.changed /\ ~call.s.overwrite
    /\ call.s.suffix = ""
    /\ Resolve(BasePath) = Resolve(call.src_path)
    /\ ret.out_path = Numbered(1)
    /\ fs[Resolve(call.src_path)] = pre[Resolve(call.src_path)]
    /\ fs[Resolve(ret.out_path)].run = ncalls

\* the temp files the call in progress or just ended created and left on disk
TempsOfCall == {q \in DOMAIN fs : IsTemp(q) /\ InOutputDir(q, call.s) /\ q \notin DOMAIN pre}

\* C22: every temp file process_image creates in the output directory is gone
\* when the call ends, however it ends: renamed onto the output path after a
\* written outcome, deleted after a not_smaller skip, and not left behind when
\* an encode or finalize failure raises out of process_image.
C22_NoTempLeft ==
    /\ (Returned /\ ret.changed)
       => (TempsOfCall = {} /\ Exists(ret.out_path)
             /\ fs[Resolve(ret.out_path)].run = ncalls)
    /\ (Returned /\ ret.skipped_reason = "not_smaller") => TempsOfCall = {}
    /\ epc = "raised" => TempsOfCall = {}

\* a worker is started only when none is alive, and the event is clear then
StartsAlone ==
    Alive(gui') > Alive(gui) => (Alive(gui) = 0 /\ Alive(gui') = 1 /\ ~cancel_event')

\* the event is cleared only by the step that starts a worker; while a worker
\* lives on, a set event stays set
ClearedOnlyAtStart ==
    (cancel_event /\ ~cancel_event')
    => (Alive(gui) = 0 /\ Alive(gui') = 1 /\ gui'.runs = gui.runs + 1)

\* C23: in the GUI at most one batch worker is alive at any time, under any
\* interleaving of Run and Cancel requests, polling and worker progress: a Run
\* request made while a worker is alive starts no second worker and does not
\* clear the event, so a cancellation requested for the running batch is not
\* lost, and the event is cleared only when a new worker is about to start.
C23_OneWorker ==
    /\ [](Alive(gui) <= 1)
    /\ [][StartsAlone /\ ClearedOnlyAtStart]_vars

\* cancel was requested, then Run was requested while the worker was alive:
\* the request was turned away and the event is still set
C23_Witness ==
    /\ gui.worker = "alive"
    /\ gui.shown = "running"
    /\ cancel_event
    /\ gui.runs = 1

====
